---- MODULE Spec2Model ----
(***************************************************************************)
(* State-machine model of the SparcExpenseTracker React application: the   *)
(* App component (ledger of expense splits, category registry, currency),  *)
(* the AddExpense form, the CategoryManager and the Settings backup and    *)
(* restore handlers.                                                       *)
(*                                                                         *)
(* Representation choices                                                  *)
(*  - monetary amounts are integers counting units of 0.005, so that the   *)
(*    0.01 tolerance of the form is 2 units and sub-tolerance mismatches   *)
(*    exist; the text of a number input is <<>> (empty, parses to NaN) or  *)
(*    <<n>> (the decimal text of n).                                       *)
(*  - identifier strings are sequences of numbers: <<n>> is the decimal    *)
(*    text of n, <<n, r>> is the text `${n}-${r}`, <<>> is a missing       *)
(*    (undefined) identifier.                                              *)
(*  - a date string 'YYYY-MM-DD' is the integer YYYYMMDD.                  *)
(*  - Date.now() reads TimeOrigin + k: every reading lies above the        *)
(*    largest array index of the language (2^32 - 2), which the model      *)
(*    places just below TimeOrigin; identifiers of stored data may lie     *)
(*    below it.                                                            *)
(*  - names (vendor, notes, category) are strings; trim and toLowerCase    *)
(*    are tabulated over the strings the model uses.                       *)
(***************************************************************************)
EXTENDS Integers, Sequences, FiniteSets, TLC

VARIABLES
    started,             \* the App's one-time useEffect has run
    now,                 \* the last value Date.now() returned
    expenses,            \* App state 'expenses' (the ledger)
    categories,          \* App state 'categories' (the registry)
    currency,            \* App state 'currency' (its code)
    storedCustom,        \* localStorage item 'customCategories' (legacy)
    activePage,          \* App state 'activePage'
    editingTransaction,  \* App state 'editingTransaction' (<<>> is null)
    form,                \* AddExpense component state
    view,                \* Settings component state 'view'
    mgr,                 \* CategoryManager component state
    op,                  \* the outcome of the last handler that commits, "idle" after another
    alertMsg,            \* the text of the last window.alert
    dash,                \* what the mounted Dashboard's useMemo hooks last computed
    filters,             \* ExpensesList component state (selected month and category)
    report,              \* Dashboard component state of the monthly report
    inFlight,            \* the requests to the two services awaiting their answer
    sms,                 \* AddExpense component state of the 'Parse from SMS' card
    downloads            \* the backup files handleBackup has written

vars == <<started, now, expenses, categories, currency, storedCustom,
          activePage, editingTransaction, form, view, mgr, op, alertMsg, dash, filters, report,
          inFlight, sms, downloads>>

-----------------------------------------------------------------------------
(* Bounds of the model *)

MaxClock == 4
MaxLedger == 3
MaxSplits == 2
MaxCustom == 1
MaxTotal == 3
MaxShown == 3
MaxDownloads == 1
MaxInFlight == 2

-----------------------------------------------------------------------------
(* Strings *)

\* String.prototype.trim over the strings of the model
Trim(s) ==
    CASE s = " "      -> ""
      [] s = " A"     -> "A"
      [] s = "n "     -> "n"
      [] s = " Pets " -> "Pets"
      [] s = " pets " -> "pets"
      [] OTHER        -> s

\* String.prototype.toLowerCase over the strings of the model
ToLowerCase(s) ==
    CASE s = "Food"          -> "food"
      [] s = "Transport"     -> "transport"
      [] s = "Shopping"      -> "shopping"
      [] s = "Utilities"     -> "utilities"
      [] s = "Entertainment" -> "entertainment"
      [] s = "Health"        -> "health"
      [] s = "Other"         -> "other"
      [] s = "Pets"          -> "pets"
      [] s = " Pets "        -> " pets "
      [] s = "Travel"        -> "travel"
      [] OTHER               -> s

\* parseFloat(text) is NaN
IsNaN(text) == Len(text) = 0

\* parseFloat(text) || 0
ParseFloatOrZero(text) == IF IsNaN(text) THEN 0 ELSE text[1]

\* parseFloat(text) > 0
ParseFloatPositive(text) == ~IsNaN(text) /\ text[1] > 0

\* Number.prototype.toString
NumToString(n) == <<n>>

\* the model's image of the first millisecond Date.now() can read
TimeOrigin == 1000

\* the model's image of 2^32 - 2, the largest array index
MaxArrayIndex == TimeOrigin - 1

\* parseInt(id, 10): the leading decimal digits of the identifier text
ParseInt(id) == id[1]

Abs(x) == IF x < 0 THEN -x ELSE x

-----------------------------------------------------------------------------
(* Sequence helpers: Array.prototype.reduce, the elements of an array *)

RECURSIVE SumAmounts(_)
SumAmounts(s) == IF s = <<>> THEN 0 ELSE s[1].amount + SumAmounts(Tail(s))

Range(s) == {s[i] : i \in 1..Len(s)}

-----------------------------------------------------------------------------
(* constants.ts *)

CATEGORIES ==
    <<"Food", "Transport", "Shopping", "Utilities", "Entertainment", "Health", "Other">>

CATEGORY_COLORS ==
    [Food |-> "#34D399", Transport |-> "#60A5FA", Shopping |-> "#F472B6",
     Utilities |-> "#FBBF24", Entertainment |-> "#A78BFA", Health |-> "#F87171",
     Other |-> "#9CA3AF"]

\* App.tsx initializeCategories
initializeCategories ==
    [i \in 1..Len(CATEGORIES) |->
        [name |-> CATEGORIES[i], color |-> CATEGORY_COLORS[CATEGORIES[i]], isDefault |-> TRUE]]

-----------------------------------------------------------------------------
(* Dates *)

YearOf(date) == date \div 10000
MonthOf(date) == (date \div 100) % 100
DayOf(date) == date % 100

\* Date.UTC(y, m - 1, d) in days since 1970-01-01 (all instants are UTC midnights)
DaysFromCivil(y, m, d) ==
    LET yy  == IF m <= 2 THEN y - 1 ELSE y
        era == yy \div 400
        yoe == yy - era * 400
        mp  == IF m > 2 THEN m - 3 ELSE m + 9
        doy == (153 * mp + 2) \div 5 + d - 1
        doe == yoe * 365 + yoe \div 4 - yoe \div 100 + doy
    IN era * 146097 + doe - 719468

\* new Date(date).getTime(), in days
GetTime(date) == DaysFromCivil(YearOf(date), MonthOf(date), DayOf(date))

\* new Date().toISOString().slice(0, 10): the calendar day of the session
Today == 20240201

-----------------------------------------------------------------------------
(* App.tsx: sortExpenses *)

\* the comparator handed to Array.prototype.sort
CompareExpenses(a, b) ==
    LET dateComparison == GetTime(b.date) - GetTime(a.date)
    IN IF dateComparison # 0 THEN dateComparison
       ELSE ParseInt(b.transactionId) - ParseInt(a.transactionId)

\* Array.prototype.sort is stable: x goes after every element not greater than it
RECURSIVE InsertExpense(_, _)
InsertExpense(x, s) ==
    IF s = <<>> THEN <<x>>
    ELSE IF CompareExpenses(s[1], x) <= 0 THEN <<s[1]>> \o InsertExpense(x, Tail(s))
         ELSE <<x>> \o s

RECURSIVE sortExpenses(_)
sortExpenses(s) ==
    IF s = <<>> THEN <<>>
    ELSE InsertExpense(s[Len(s)], sortExpenses(SubSeq(s, 1, Len(s) - 1)))

-----------------------------------------------------------------------------
(* Component state at mount *)

\* AddExpense useState initial values / resetForm
InitialForm ==
    [totalAmount |-> <<>>, vendor |-> "", date |-> Today, notes |-> "",
     isSplit |-> FALSE, splits |-> <<[amount |-> <<>>, category |-> "Other"]>>]

\* AddExpense useState initial values of smsText, isParsing and error ("" is null)
InitialSms == [smsText |-> "", isParsing |-> FALSE, error |-> ""]

\* no Dashboard is mounted
NoDash == [mounted |-> FALSE]

\* ExpensesList useState initial values: the current month, every category
InitialFilters == [selectedMonth |-> Today \div 100, selectedCategory |-> "all"]

\* the report state of a Dashboard that is not mounted
NoReport == [isGeneratingReport |-> FALSE, selectedReportMonth |-> 0]

\* the months of the report select, as a set: those of the ledger, or the current one
availableReportMonths(ledger) ==
    IF ledger = <<>> THEN {Today \div 100} ELSE {e.date \div 100 : e \in Range(ledger)}

\* Dashboard useState initial values after the effect that picks the most recent month
ReportAtMount(ledger) ==
    [isGeneratingReport |-> FALSE,
     selectedReportMonth |->
        CHOOSE month \in availableReportMonths(ledger) :
           \A other \in availableReportMonths(ledger) : other <= month]

\* CategoryManager useState initial values
InitialMgr ==
    [isAdding |-> FALSE, editingCatName |-> "", name |-> "", color |-> "#9CA3AF",
     error |-> ""]

-----------------------------------------------------------------------------
(* What an earlier session left in localStorage *)

\* records written before splits existed: no transactionId, oldest first
LegacyExpenses ==
    <<[id |-> <<1>>, transactionId |-> <<>>, vendor |-> "A", date |-> 20240131,
       notes |-> "", amount |-> 2, category |-> "Food"],
      [id |-> <<2>>, transactionId |-> <<>>, vendor |-> "A", date |-> 20240201,
       notes |-> "", amount |-> 1, category |-> "Pets"]>>

LegacyCustomCategories ==
    <<[name |-> "Pets", color |-> "#112233"], [name |-> "food", color |-> "#445566"]>>

StoredExpenses == {<<>>, LegacyExpenses}
StoredCategories == {<<>>, initializeCategories}
StoredCustom == {<<>>, LegacyCustomCategories}

Init ==
    /\ started = FALSE
    /\ now = TimeOrigin + Len(LegacyExpenses) + 1
    /\ expenses \in StoredExpenses
    /\ categories \in StoredCategories
    /\ currency = "INR"
    /\ storedCustom \in StoredCustom
    /\ activePage = "add"
    /\ editingTransaction = <<>>
    /\ form = InitialForm
    /\ view = "main"
    /\ mgr = InitialMgr
    /\ op = "init"
    /\ alertMsg = ""
    /\ dash = NoDash
    /\ filters = InitialFilters
    /\ report = NoReport
    /\ inFlight = <<>>
    /\ sms = InitialSms
    /\ downloads = {}

-----------------------------------------------------------------------------
(* App.tsx: one-time initialization and migration effect *)

\* every split given its id as transactionId, for comparison
MigrateOverwriting(s) == [i \in 1..Len(s) |-> [s[i] EXCEPT !.transactionId = s[i].id]]

\* expenses.map(e => e.transactionId ? e : { ...e, transactionId: e.id })
MigrateExpenses(s) ==
    [i \in 1..Len(s) |-> IF s[i].transactionId # <<>> THEN s[i]
                         ELSE [s[i] EXCEPT !.transactionId = s[i].id]]

\* the legacy customCategories merged into the registry, names compared in lower case
MergeStoredCustom(finalCategories, customCats) ==
    LET existingNames == {ToLowerCase(c.name) : c \in Range(finalCategories)}
        kept == SelectSeq(customCats, LAMBDA cc: ToLowerCase(cc.name) \notin existingNames)
        newCatsToAdd ==
            [i \in 1..Len(kept) |->
                [name |-> kept[i].name, color |-> kept[i].color, isDefault |-> FALSE]]
    IN finalCategories \o newCatsToAdd

Startup ==
    /\ ~started
    /\ started' = TRUE
    /\ LET finalCategories == IF Len(categories) = 0 THEN initializeCategories
                              ELSE categories
       IN categories' = MergeStoredCustom(finalCategories, storedCustom)
    /\ storedCustom' = <<>>
    /\ expenses' = IF \E e \in Range(expenses) : e.transactionId = <<>>
                   THEN sortExpenses(MigrateExpenses(expenses))
                   ELSE expenses
    /\ op' = "startup"
    /\ UNCHANGED <<now, currency, activePage, editingTransaction, form, view, mgr, alertMsg,
                   dash, filters, report, inFlight, sms, downloads>>

-----------------------------------------------------------------------------
(* What the user types and picks *)

AmountInputs == {<<>>, <<0>>, <<1>>, <<2>>}
VendorInputs == {"", " ", " A"}
NotesInputs == {"", "n "}
DateInputs == {20240131, 20240201}
CategoryPicks == {"Food", "Other"}

\* App.tsx allCategoryNames, as the set of options of the form's selects
allCategoryNames == {c.name : c \in Range(categories)}

-----------------------------------------------------------------------------
(* App.tsx: handleNavigate, handleFabClick *)

\* AddExpense 'Dirty form check' effect feeding isAddFormDirty
isAddFormDirty == form.totalAmount # <<>> \/ form.vendor # "" \/ form.notes # ""

\* the components of the page left are unmounted, those of the page entered mount
GoTo(targetPage) ==
    /\ activePage' = targetPage
    /\ editingTransaction' = <<>>
    /\ form' = InitialForm
    /\ view' = "main"
    /\ mgr' = InitialMgr

\* the requests of a component that is unmounted stay outstanding
Orphaned(requests) == [i \in 1..Len(requests) |-> [requests[i] EXCEPT !.live = FALSE]]

\* what a change of activePage does to the state of the page components other than
\* the form and Settings: the page left is unmounted, the page entered mounts
Remount ==
    /\ dash' = IF activePage' = activePage THEN dash ELSE NoDash
    /\ filters' = IF activePage' = activePage THEN filters ELSE InitialFilters
    /\ report' = IF activePage' = activePage THEN report
                 ELSE IF activePage' = "dashboard" THEN ReportAtMount(expenses')
                 ELSE NoReport
    /\ inFlight' = IF activePage' = activePage THEN inFlight ELSE Orphaned(inFlight)
    /\ sms' = IF activePage' = activePage THEN sms ELSE InitialSms

handleNavigate(targetPage) ==
    /\ started
    /\ \/ activePage \in {"dashboard", "expenses", "add"} /\ targetPage \in {"dashboard", "expenses"}
       \/ activePage = "dashboard" /\ targetPage = "settings"
    /\ IF activePage = "add" /\ isAddFormDirty
       THEN \E confirmed \in BOOLEAN :
               IF confirmed THEN GoTo(targetPage)
               ELSE UNCHANGED <<activePage, editingTransaction, form, view, mgr>>
       ELSE GoTo(targetPage)
    /\ op' = "idle"
    /\ UNCHANGED <<started, now, expenses, categories, currency, storedCustom, alertMsg,
                   downloads>>
    /\ Remount

handleFabClick ==
    /\ started
    /\ activePage # "settings"
    /\ IF activePage = "add"
       THEN IF isAddFormDirty
            THEN \E confirmed \in BOOLEAN :
                    IF confirmed THEN GoTo("dashboard")
                    ELSE UNCHANGED <<activePage, editingTransaction, form, view, mgr>>
            ELSE GoTo("dashboard")
       ELSE GoTo("add")
    /\ op' = "idle"
    /\ UNCHANGED <<started, now, expenses, categories, currency, storedCustom, alertMsg,
                   downloads>>
    /\ Remount

-----------------------------------------------------------------------------
(* AddExpense.tsx: the form's field handlers *)

FormFrame == UNCHANGED <<dash, filters, report, inFlight, sms, downloads, started, now, expenses,
                         categories, currency, storedCustom,
                         activePage, editingTransaction, view, mgr, alertMsg>>

OnForm == started /\ activePage = "add"

isEditMode == editingTransaction # <<>>

setTotalAmount ==
    /\ OnForm
    /\ \E value \in AmountInputs : form' = [form EXCEPT !.totalAmount = value]
    /\ op' = "idle"
    /\ FormFrame

setVendor ==
    /\ OnForm
    /\ \E value \in VendorInputs : form' = [form EXCEPT !.vendor = value]
    /\ op' = "idle"
    /\ FormFrame

setDate ==
    /\ OnForm
    /\ \E value \in DateInputs : form' = [form EXCEPT !.date = value]
    /\ op' = "idle"
    /\ FormFrame

setNotes ==
    /\ OnForm
    /\ \E value \in NotesInputs : form' = [form EXCEPT !.notes = value]
    /\ op' = "idle"
    /\ FormFrame

\* updateSplit(index, 'amount', value), from a split's amount input
updateSplitAmount ==
    /\ OnForm
    /\ form.isSplit
    /\ \E index \in 1..Len(form.splits) : \E value \in AmountInputs :
          form' = [form EXCEPT !.splits[index].amount = value]
    /\ op' = "idle"
    /\ FormFrame

\* updateSplit(index, 'category', value), from a split's category select
updateSplitCategory ==
    /\ OnForm
    /\ form.isSplit
    /\ \E index \in 1..Len(form.splits) : \E value \in CategoryPicks \cap allCategoryNames :
          form' = [form EXCEPT !.splits[index].category = value]
    /\ op' = "idle"
    /\ FormFrame

addSplit ==
    /\ OnForm
    /\ form.isSplit
    /\ Len(form.splits) < MaxSplits
    /\ form' = [form EXCEPT !.splits = @ \o <<[amount |-> <<>>, category |-> "Other"]>>]
    /\ op' = "idle"
    /\ FormFrame

removeSplit ==
    /\ OnForm
    /\ form.isSplit
    /\ \E index \in 1..Len(form.splits) :
          form' = IF Len(form.splits) > 1
                  THEN [form EXCEPT !.splits =
                           SubSeq(@, 1, index - 1) \o SubSeq(@, index + 1, Len(@))]
                  ELSE form
    /\ op' = "idle"
    /\ FormFrame

\* the first split kept as it is, for comparison
FirstSplitOnly(f) == <<f.splits[1]>>

\* the splits left by toggling to single-category mode
ConsolidatedSplits(f) ==
    LET firstCategory == IF Len(f.splits) > 0 THEN f.splits[1].category ELSE "Other"
    IN <<[amount |-> f.totalAmount, category |-> firstCategory]>>

handleToggleSplit ==
    /\ OnForm
    /\ LET newIsSplit == ~form.isSplit
       IN form' = [form EXCEPT !.isSplit = newIsSplit,
                               !.splits = IF ~newIsSplit THEN ConsolidatedSplits(form) ELSE @]
    /\ op' = IF form.isSplit THEN "handleToggleSplit:single" ELSE "idle"
    /\ FormFrame

\* the single-category select, onChange
selectCategory ==
    /\ OnForm
    /\ ~form.isSplit
    /\ \E newCategory \in CategoryPicks \cap allCategoryNames :
          form' = [form EXCEPT !.splits =
                      <<[amount |-> form.totalAmount, category |-> newCategory]>>]
    /\ op' = "idle"
    /\ FormFrame

\* the single-category select, onFocus
focusCategory ==
    /\ OnForm
    /\ ~form.isSplit
    /\ form' = [form EXCEPT !.splits =
                   <<[amount |-> form.totalAmount,
                      category |-> IF Len(form.splits) > 0 THEN form.splits[1].category
                                   ELSE "Other"]>>]
    /\ op' = "idle"
    /\ FormFrame

resetForm ==
    /\ OnForm
    /\ form' = InitialForm
    /\ sms' = [sms EXCEPT !.smsText = "", !.error = ""]
    /\ op' = "idle"
    /\ UNCHANGED <<started, now, expenses, categories, currency, storedCustom, activePage,
                   editingTransaction, view, mgr, alertMsg, dash, filters, report, inFlight,
                   downloads>>

-----------------------------------------------------------------------------
(* AddExpense.tsx: validation (the useMemo giving remainingAmount and isValid) *)

\* 0.01, in units of 0.005
Epsilon == 2

RECURSIVE Allocated(_)
Allocated(splits) ==
    IF splits = <<>> THEN 0
    ELSE ParseFloatOrZero(splits[1].amount) + Allocated(Tail(splits))

remainingAmount(f) == ParseFloatOrZero(f.totalAmount) - Allocated(f.splits)

\* every split with a number for its amount, zero included, for comparison
allSplitsNumeric(f) ==
    \A i \in 1..Len(f.splits) : ~IsNaN(f.splits[i].amount) /\ f.splits[i].category # ""

allSplitsValid(f) ==
    \A i \in 1..Len(f.splits) :
        ParseFloatPositive(f.splits[i].amount) /\ f.splits[i].category # ""

\* the tolerance compared with <= in place of <
isAmountCorrectInclusive(f) == Abs(remainingAmount(f)) <= Epsilon

isAmountCorrect(f) == Abs(remainingAmount(f)) < Epsilon

isValid(f) ==
    /\ ParseFloatOrZero(f.totalAmount) > 0
    /\ Trim(f.vendor) # ""
    /\ allSplitsValid(f)
    /\ isAmountCorrect(f)

-----------------------------------------------------------------------------
(* App.tsx: addTransaction, updateTransaction, deleteTransaction, handleStartEdit *)

\* Math.random().toString(36).substr(2, 9): the k-th suffix no id of the ledger uses
UsedSuffixes(ledger) == {e.id[2] : e \in {x \in Range(ledger) : Len(x.id) = 2}}

FreshSuffix(ledger, k) ==
    LET used == UsedSuffixes(ledger)
    IN CHOOSE r \in 1..(Cardinality(used) + k) :
          r \notin used /\ Cardinality({q \in 1..r : q \notin used}) = k

\* one Expense per split of the transaction, all carrying its fields
BuildExpenses(transactionId, transaction, ledger) ==
    [i \in 1..Len(transaction.splits) |->
        [id            |-> <<transactionId[1], FreshSuffix(ledger, i)>>,
         transactionId |-> transactionId,
         vendor        |-> transaction.vendor,
         date          |-> transaction.date,
         notes         |-> transaction.notes,
         amount        |-> transaction.splits[i].amount,
         category      |-> transaction.splits[i].category]]

\* Date.now().toString()
MintTransactionId(clock) == NumToString(clock)

addTransaction(prevExpenses, transaction, clock) ==
    LET newTransactionId == MintTransactionId(clock)
        newExpenses == BuildExpenses(newTransactionId, transaction, prevExpenses)
    IN sortExpenses(newExpenses \o prevExpenses)

\* the update that inserts the new splits and forgets to drop the old ones
updateTransactionKeepingOld(prev, updatedTransaction) ==
    LET transactionId == updatedTransaction.transactionId
        updatedExpenses == BuildExpenses(transactionId, updatedTransaction, prev)
    IN sortExpenses(prev \o updatedExpenses)

updateTransaction(prev, updatedTransaction) ==
    LET transactionId == updatedTransaction.transactionId
        updatedExpenses == BuildExpenses(transactionId, updatedTransaction, prev)
    IN sortExpenses(SelectSeq(prev, LAMBDA e : e.transactionId # transactionId)
                    \o updatedExpenses)

\* only the first split of the transaction removed, for comparison
deleteFirstSplit(prevExpenses, transactionId) ==
    LET first == {i \in 1..Len(prevExpenses) :
                     /\ prevExpenses[i].transactionId = transactionId
                     /\ \A j \in 1..(i - 1) : prevExpenses[j].transactionId # transactionId}
    IN [k \in 1..(Len(prevExpenses) - Cardinality(first)) |->
           IF \E i \in first : i <= k THEN prevExpenses[k + 1] ELSE prevExpenses[k]]

deleteTransaction(prevExpenses, transactionId) ==
    SelectSeq(prevExpenses, LAMBDA expense : expense.transactionId # transactionId)

\* the transaction the form hands over: trimmed fields and parsed amounts
FormTransaction(f) ==
    [vendor |-> Trim(f.vendor), date |-> f.date, notes |-> Trim(f.notes),
     splits |-> [i \in 1..Len(f.splits) |->
                   [amount |-> f.splits[i].amount[1], category |-> f.splits[i].category]]]

\* what Date.now() may return: the wall clock has not gone back since the last reading,
\* and two readings within one millisecond are equal
ClockReadings == {t \in now..(now + 1) : t <= TimeOrigin + MaxClock}

handleSubmit ==
    /\ OnForm
    /\ IF ~isValid(form)
       THEN /\ op' = "handleSubmit:rejected"
            /\ UNCHANGED <<now, expenses, activePage, editingTransaction, form>>
       ELSE IF isEditMode
       THEN /\ Len(expenses) - Len(editingTransaction) + Len(form.splits) <= MaxLedger
            /\ Allocated(form.splits) <= MaxTotal
            /\ expenses' = updateTransaction(expenses,
                              FormTransaction(form) @@
                              [transactionId |-> editingTransaction[1].transactionId])
            /\ editingTransaction' = <<>>
            /\ activePage' = "expenses"
            /\ form' = InitialForm
            /\ op' = "handleSubmit:update"
            /\ UNCHANGED now
       ELSE /\ Len(expenses) + Len(form.splits) <= MaxLedger
            /\ Allocated(form.splits) <= MaxTotal
            /\ \E clock \in ClockReadings :
                  /\ now' = clock
                  /\ expenses' = addTransaction(expenses, FormTransaction(form), clock)
            /\ activePage' = "expenses"
            /\ form' = InitialForm
            /\ op' = "handleSubmit:create"
            /\ UNCHANGED editingTransaction
    /\ UNCHANGED <<started, categories, currency, storedCustom, view, mgr, alertMsg,
                   downloads>>
    /\ Remount

-----------------------------------------------------------------------------
(* AddExpense.tsx handleParseSms and geminiService.ts parseExpenseFromText *)

SmsInputs == {" ", "spent 1 at A"}

\* the category names of the model in the order of Array.prototype.sort (UTF-16 code
\* units: capitals before small letters)
CodeUnitOrder ==
    <<"Entertainment", "Food", "Health", "Other", "Pets", "Shopping", "Transport",
      "Utilities", "food">>

\* App.tsx allCategoryNames as the array handed to AddExpense: categories.map(c => c.name).sort()
SortedNames(names) == SelectSeq(CodeUnitOrder, LAMBDA name : name \in names)

\* what parseWithSdk / parseWithProxy may come back with: an exception, null, or the
\* parsed JSON of the service (category "" is an absent or empty category)
AiResponse(isExpense, amountIsNumber, category, categoryIsString) ==
    [settles |-> "response", isExpense |-> isExpense, amountIsNumber |-> amountIsNumber,
     amount |-> 2, vendor |-> "A", category |-> category,
     categoryIsString |-> categoryIsString]

AiResponses ==
    {[settles |-> "throws"], [settles |-> "null"],
     AiResponse(FALSE, TRUE, "", TRUE), AiResponse(TRUE, FALSE, "Food", TRUE),
     AiResponse(TRUE, TRUE, "Food", FALSE)}
       \cup {AiResponse(TRUE, TRUE, category, TRUE) :
                category \in {"", "Food", "food", " Pets ", "Travel"}}

\* the service's category passed on as it came, for comparison
parseExpenseUnvalidated(aiResponse, allCategories) ==
    IF aiResponse.settles # "response" THEN <<>>
    ELSE IF ~(aiResponse.isExpense /\ aiResponse.amountIsNumber) THEN <<>>
    ELSE [amount |-> aiResponse.amount, vendor |-> aiResponse.vendor,
          category |-> aiResponse.category]

\* parseExpenseFromText: <<>> is null; category "" is a deleted or absent category
parseExpenseFromText(aiResponse, allCategories) ==
    IF aiResponse.settles # "response" THEN <<>>
    ELSE IF ~(aiResponse.isExpense /\ aiResponse.amountIsNumber) THEN <<>>
    ELSE IF aiResponse.category = ""
    THEN [amount |-> aiResponse.amount, vendor |-> aiResponse.vendor, category |-> ""]
    ELSE IF ~aiResponse.categoryIsString THEN <<>>
    ELSE LET categoriesToUse == IF Len(allCategories) > 0 THEN allCategories ELSE CATEGORIES
             modelCategoryLower == Trim(ToLowerCase(aiResponse.category))
             matching == SelectSeq(categoriesToUse,
                                   LAMBDA c : ToLowerCase(c) = modelCategoryLower)
         IN [amount |-> aiResponse.amount, vendor |-> aiResponse.vendor,
             category |-> IF matching # <<>> THEN matching[1] ELSE ""]

\* the textarea's onChange; the textarea is disabled while parsing
setSmsText ==
    /\ OnForm
    /\ ~isEditMode
    /\ ~sms.isParsing
    /\ \E value \in SmsInputs : sms' = [sms EXCEPT !.smsText = value]
    /\ op' = "idle"
    /\ UNCHANGED <<started, now, expenses, categories, currency, storedCustom, activePage,
                   editingTransaction, form, view, mgr, alertMsg, dash, filters, report,
                   inFlight, downloads>>

\* a click on 'Parse with AI', up to the await; the button is disabled while parsing
handleParseSms ==
    /\ OnForm
    /\ ~isEditMode
    /\ ~sms.isParsing
    /\ IF Trim(sms.smsText) = ""
       THEN /\ sms' = [sms EXCEPT !.error = "Please paste your SMS content first."]
            /\ op' = "handleParseSms:empty"
            /\ UNCHANGED inFlight
       ELSE /\ Len(inFlight) < MaxInFlight
            /\ sms' = [sms EXCEPT !.isParsing = TRUE, !.error = ""]
            /\ inFlight' = Append(inFlight,
                              [call |-> "parseExpenseFromText", live |-> TRUE,
                               allCategories |-> SortedNames(allCategoryNames)])
            /\ op' = "handleParseSms:sent"
    /\ UNCHANGED <<started, now, expenses, categories, currency, storedCustom, activePage,
                   editingTransaction, form, view, mgr, alertMsg, dash, filters, report,
                   downloads>>

ParseFailed == "Couldn't identify an expense from the text. Please enter manually."

Without(requests, i) == SubSeq(requests, 1, i - 1) \o SubSeq(requests, i + 1, Len(requests))

\* a parse that writes its candidate to the ledger itself, for comparison
handleParseSmsCommitting(i, aiResponse) ==
    /\ started
    /\ i \in 1..Len(inFlight)
    /\ inFlight[i].call = "parseExpenseFromText"
    /\ aiResponse.settles = "response"
    /\ Len(expenses) < MaxLedger
    /\ expenses' = addTransaction(expenses,
                      [vendor |-> aiResponse.vendor, date |-> Today, notes |-> "",
                       splits |-> <<[amount |-> aiResponse.amount, category |-> "Other"]>>],
                      now)
    /\ sms' = [sms EXCEPT !.isParsing = FALSE]
    /\ op' = "handleParseSms:filled"
    /\ inFlight' = Without(inFlight, i)
    /\ UNCHANGED <<started, now, categories, currency, storedCustom, activePage,
                   editingTransaction, form, view, mgr, alertMsg, dash, filters, report,
                   downloads>>

\* handleParseSms from the await on, for the request at place i settling with aiResponse;
\* the state setters of a component that was unmounted change nothing
handleParseSmsSettled(i, aiResponse) ==
    /\ started
    /\ i \in 1..Len(inFlight)
    /\ inFlight[i].call = "parseExpenseFromText"
    /\ LET result == parseExpenseFromText(aiResponse, inFlight[i].allCategories)
       IN IF ~inFlight[i].live
          THEN /\ op' = "handleParseSms:orphan"
               /\ UNCHANGED <<form, sms>>
          ELSE IF result # <<>>
          THEN /\ form' = [form EXCEPT
                             !.totalAmount = NumToString(result.amount),
                             !.vendor = result.vendor,
                             !.splits = <<[amount |-> NumToString(result.amount),
                                           category |-> IF result.category # ""
                                                        THEN result.category ELSE "Other"]>>,
                             !.isSplit = FALSE]
               /\ sms' = [sms EXCEPT !.isParsing = FALSE]
               /\ op' = "handleParseSms:filled"
          ELSE /\ sms' = [sms EXCEPT
                            !.error = ParseFailed,
                            !.isParsing = FALSE]
               /\ op' = "handleParseSms:none"
               /\ UNCHANGED form
    /\ inFlight' = Without(inFlight, i)
    /\ UNCHANGED <<started, now, expenses, categories, currency, storedCustom, activePage,
                   editingTransaction, view, mgr, alertMsg, dash, filters, report, downloads>>

-----------------------------------------------------------------------------
(* ExpensesList.tsx: the filters and the grouping of the list *)

\* expense.date.substring(0, 7)
YearMonth(date) == date \div 100

\* the options of the month select: the ledger's months and the current one
availableMonths(ledger) == {YearMonth(e.date) : e \in Range(ledger)} \cup {YearMonth(Today)}

\* filteredExpenses: Array.prototype.filter keeps the order and leaves the ledger alone
filteredExpenses(ledger, selectedMonth, selectedCategory) ==
    LET byMonth == SelectSeq(ledger, LAMBDA expense : YearMonth(expense.date) = selectedMonth)
    IN IF selectedCategory = "all" THEN byMonth
       ELSE SelectSeq(byMonth, LAMBDA expense : expense.category = selectedCategory)

\* formatDate(isoDate): month name, day and year of a well-formed date
formatDate(date) ==
    LET monthIndex == MonthOf(date) - 1
        day == DayOf(date)
    IN IF monthIndex < 0 \/ monthIndex > 11 \/ day < 1 \/ day > 31 THEN "Invalid Date"
       ELSE [month |-> monthIndex, day |-> day, year |-> YearOf(date)]

\* a property key that is an array index: the canonical decimal text of an integer
\* up to 2^32 - 2
IsArrayIndex(key) == Len(key) = 1 /\ key[1] >= 0 /\ key[1] <= MaxArrayIndex

\* the keys in the order they were first written to an object
RECURSIVE FirstInsertions(_)
FirstInsertions(keys) ==
    IF keys = <<>> THEN <<>>
    ELSE LET before == FirstInsertions(SubSeq(keys, 1, Len(keys) - 1))
             last == keys[Len(keys)]
         IN IF last \in Range(before) THEN before ELSE Append(before, last)

RECURSIVE Ascending(_)
Ascending(numbers) ==
    IF numbers = {} THEN <<>>
    ELSE LET least == CHOOSE x \in numbers : \A y \in numbers : x <= y
         IN <<NumToString(least)>> \o Ascending(numbers \ {least})

\* the order in which Object.values and Object.entries visit the keys of an object:
\* array indices in ascending numeric order, then the other keys as first written
OwnPropertyKeys(keys) ==
    LET written == FirstInsertions(keys)
    IN Ascending({key[1] : key \in {k \in Range(written) : IsArrayIndex(k)}})
          \o SelectSeq(written, LAMBDA key : ~IsArrayIndex(key))

\* groupedByDate: per date in the order of Object.entries, the transactions of the
\* date in the order of Object.values, each the splits of one transactionId
groupedByDate(shown) ==
    LET ids == OwnPropertyKeys([i \in 1..Len(shown) |-> shown[i].transactionId])
        transactions ==
            [i \in 1..Len(ids) |->
                SelectSeq(shown, LAMBDA expense : expense.transactionId = ids[i])]
        dates == FirstInsertions([i \in 1..Len(ids) |-> formatDate(transactions[i][1].date)])
    IN [d \in 1..Len(dates) |->
          SelectSeq(transactions, LAMBDA transaction : formatDate(transaction[1].date) = dates[d])]

\* the transactions of the list from top to bottom, by transactionId
RECURSIVE TopToBottom(_)
TopToBottom(groups) ==
    IF groups = <<>> THEN <<>>
    ELSE [i \in 1..Len(groups[1]) |-> groups[1][i][1].transactionId] \o TopToBottom(Tail(groups))

\* what the mounted list renders
Listed ==
    groupedByDate(filteredExpenses(expenses, filters.selectedMonth, filters.selectedCategory))

\* the transactions the expense list shows
ListedTransactionIds == Range(TopToBottom(Listed))

\* the month select's onChange
setSelectedMonth ==
    /\ started
    /\ activePage = "expenses"
    /\ \E month \in availableMonths(expenses) :
          filters' = [filters EXCEPT !.selectedMonth = month]
    /\ op' = "idle"
    /\ UNCHANGED <<started, now, expenses, categories, currency, storedCustom, activePage,
                   editingTransaction, form, view, mgr, alertMsg, dash, report, inFlight,
                   sms, downloads>>

\* the category select's onChange: 'all' or one of allCategories
setSelectedCategory ==
    /\ started
    /\ activePage = "expenses"
    /\ \E category \in {"all"} \cup allCategoryNames :
          filters' = [filters EXCEPT !.selectedCategory = category]
    /\ op' = "idle"
    /\ UNCHANGED <<started, now, expenses, categories, currency, storedCustom, activePage,
                   editingTransaction, form, view, mgr, alertMsg, dash, report, inFlight,
                   sms, downloads>>


\* the form as the AddExpense mount effect fills it from transactionToEdit
PrefilledForm(transactionToEdit) ==
    [totalAmount |-> NumToString(SumAmounts(transactionToEdit)),
     vendor      |-> transactionToEdit[1].vendor,
     date        |-> transactionToEdit[1].date,
     notes       |-> transactionToEdit[1].notes,
     isSplit     |-> Len(transactionToEdit) > 1,
     splits      |-> [i \in 1..Len(transactionToEdit) |->
                        [amount |-> NumToString(transactionToEdit[i].amount),
                         category |-> transactionToEdit[i].category]]]

handleStartEdit ==
    /\ started
    /\ activePage = "expenses"
    /\ \E transactionId \in ListedTransactionIds :
          LET transactionToEdit ==
                  SelectSeq(expenses, LAMBDA e : e.transactionId = transactionId)
          IN /\ Len(transactionToEdit) > 0
             /\ editingTransaction' = transactionToEdit
             /\ form' = PrefilledForm(transactionToEdit)
    /\ activePage' = "add"
    /\ op' = "idle"
    /\ UNCHANGED <<started, now, expenses, categories, currency, storedCustom, view, mgr,
                   alertMsg, downloads>>
    /\ Remount

handleDeleteClick ==
    /\ started
    /\ activePage = "expenses"
    /\ \E transactionId \in ListedTransactionIds :
          expenses' = deleteTransaction(expenses, transactionId)
    /\ op' = "deleteTransaction"
    /\ UNCHANGED <<dash, filters, report, inFlight, sms, downloads, started, now, categories,
                   currency,
                   storedCustom, activePage,
                   editingTransaction, form, view, mgr, alertMsg>>

-----------------------------------------------------------------------------
(* Settings.tsx: views, currency *)

NameInputs == {" ", "food", " Pets "}
ColorInputs == {"#000000"}
CurrencyInputs == {"INR", "USD"}
EditPicks == {"Food", "Other", "Pets", "food"}

OnSettings(v) == started /\ activePage = "settings" /\ view = v

\* setView from a settings tile, handleBack from a sub-view
setView ==
    /\ started
    /\ activePage = "settings"
    /\ \/ view = "main" /\ view' \in {"currency", "categories"}
       \/ view # "main" /\ view' = "main"
    /\ mgr' = InitialMgr
    /\ op' = "idle"
    /\ UNCHANGED alertMsg
    /\ UNCHANGED <<dash, filters, report, inFlight, sms, downloads, started, now, expenses,
                   categories,
                   currency, storedCustom, activePage,
                   editingTransaction, form>>

onCurrencyChange ==
    /\ OnSettings("currency")
    /\ currency' \in CurrencyInputs
    /\ op' = "idle"
    /\ UNCHANGED alertMsg
    /\ UNCHANGED <<dash, filters, report, inFlight, sms, downloads, started, now, expenses,
                   categories,
                   storedCustom, activePage,
                   editingTransaction, form, view, mgr>>

-----------------------------------------------------------------------------
(* CategoryManager.tsx *)

MgrFrame == UNCHANGED <<dash, filters, report, inFlight, sms, downloads, started, now, currency,
                        storedCustom, activePage,
                        editingTransaction, form, view>>

NamesOf(cats) == {c.name : c \in Range(cats)}

handleAddNewClick ==
    /\ OnSettings("categories")
    /\ ~mgr.isAdding /\ mgr.editingCatName = ""
    /\ \E randomColor \in ColorInputs :
          mgr' = [isAdding |-> TRUE, editingCatName |-> "", name |-> "",
                  color |-> randomColor, error |-> ""]
    /\ op' = "idle"
    /\ UNCHANGED alertMsg
    /\ UNCHANGED <<expenses, categories>>
    /\ MgrFrame

handleEditClick ==
    /\ OnSettings("categories")
    /\ \E category \in Range(categories) :
          /\ category.name \in EditPicks
          /\ category.name # mgr.editingCatName
          /\ mgr' = [isAdding |-> FALSE, editingCatName |-> category.name,
                     name |-> category.name, color |-> category.color, error |-> ""]
    /\ op' = "idle"
    /\ UNCHANGED alertMsg
    /\ UNCHANGED <<expenses, categories>>
    /\ MgrFrame

handleCancel ==
    /\ OnSettings("categories")
    /\ mgr.isAdding \/ mgr.editingCatName # ""
    /\ mgr' = [mgr EXCEPT !.isAdding = FALSE, !.editingCatName = "", !.error = ""]
    /\ op' = "idle"
    /\ UNCHANGED alertMsg
    /\ UNCHANGED <<expenses, categories>>
    /\ MgrFrame

\* the name input of the row being edited is disabled for 'Other'
NameInputDisabled(editingName) == editingName = "Other"

setFormStateName ==
    /\ OnSettings("categories")
    /\ \/ mgr.isAdding
       \/ /\ mgr.editingCatName \in NamesOf(categories)
          /\ ~NameInputDisabled(mgr.editingCatName)
    /\ \E value \in NameInputs : mgr' = [mgr EXCEPT !.name = value]
    /\ op' = "idle"
    /\ UNCHANGED alertMsg
    /\ UNCHANGED <<expenses, categories>>
    /\ MgrFrame

setFormStateColor ==
    /\ OnSettings("categories")
    /\ mgr.isAdding \/ mgr.editingCatName \in NamesOf(categories)
    /\ \E value \in ColorInputs : mgr' = [mgr EXCEPT !.color = value]
    /\ op' = "idle"
    /\ UNCHANGED alertMsg
    /\ UNCHANGED <<expenses, categories>>
    /\ MgrFrame

\* names compared as they are written, for comparison
validateNameExact(cats, name, originalName) ==
    LET trimmedName == Trim(name)
        isDuplicate ==
            \E i \in 1..Len(cats) : cats[i].name = trimmedName /\ cats[i].name # originalName
    IN IF trimmedName = "" THEN "Category name cannot be empty."
       ELSE IF isDuplicate THEN "This category name already exists."
       ELSE ""

\* validateName: "" is null (no error); originalName "" is undefined
validateName(cats, name, originalName) ==
    LET trimmedName == Trim(name)
        isDuplicate ==
            \E i \in 1..Len(cats) :
                /\ ToLowerCase(cats[i].name) = ToLowerCase(trimmedName)
                /\ ToLowerCase(cats[i].name) # ToLowerCase(originalName)
    IN IF trimmedName = "" THEN "Category name cannot be empty."
       ELSE IF isDuplicate THEN "This category name already exists."
       ELSE ""

\* no cascade at all, for comparison
KeepCategory(ledger, from, to) == ledger

\* expenses.map(exp => exp.category === from ? { ...exp, category: to } : exp)
ReassignCategory(ledger, from, to) ==
    [i \in 1..Len(ledger) |-> IF ledger[i].category = from
                              THEN [ledger[i] EXCEPT !.category = to]
                              ELSE ledger[i]]

\* the ledger after a rename of editingName to trimmedName
RenameCascade(ledger, editingName, trimmedName) ==
    IF ToLowerCase(editingName) # ToLowerCase(trimmedName)
    THEN ReassignCategory(ledger, editingName, trimmedName)
    ELSE ledger

\* categories.map(cat => cat.name === editingName ? { ...cat, name, color } : cat)
RenameCategory(cats, editingName, trimmedName, color) ==
    [i \in 1..Len(cats) |-> IF cats[i].name = editingName
                            THEN [cats[i] EXCEPT !.name = trimmedName, !.color = color]
                            ELSE cats[i]]

CustomCount(cats) == Cardinality({i \in 1..Len(cats) : ~cats[i].isDefault})

handleSave ==
    /\ OnSettings("categories")
    /\ mgr.isAdding \/ mgr.editingCatName \in NamesOf(categories)
    /\ LET validationError == validateName(categories, mgr.name, mgr.editingCatName)
           trimmedName == Trim(mgr.name)
       IN IF validationError # ""
          THEN /\ mgr' = [mgr EXCEPT !.error = validationError]
               /\ op' = "handleSave:rejected"
               /\ UNCHANGED <<expenses, categories>>
          ELSE IF mgr.isAdding
          THEN /\ CustomCount(categories) < MaxCustom
               /\ categories' = categories \o
                     <<[name |-> trimmedName, color |-> mgr.color, isDefault |-> FALSE]>>
               /\ mgr' = [mgr EXCEPT !.isAdding = FALSE, !.editingCatName = "", !.error = ""]
               /\ op' = "handleSave:add"
               /\ UNCHANGED expenses
          ELSE /\ expenses' = RenameCascade(expenses, mgr.editingCatName, trimmedName)
               /\ categories' = RenameCategory(categories, mgr.editingCatName, trimmedName,
                                               mgr.color)
               /\ mgr' = [mgr EXCEPT !.isAdding = FALSE, !.editingCatName = "", !.error = ""]
               /\ op' = "handleSave:rename"
    /\ UNCHANGED alertMsg
    /\ MgrFrame

\* renderCategoryItem shows the delete button of a category
CanDelete(category) == ~category.isDefault /\ category.name # "Other"

\* categories.filter(cat => cat.name !== name)
RemoveCategory(cats, name) == SelectSeq(cats, LAMBDA cat : cat.name # name)

handleDelete(name, confirmed) ==
    /\ OnSettings("categories")
    /\ \E category \in Range(categories) :
          /\ category.name = name
          /\ category.name # mgr.editingCatName
          /\ CanDelete(category)
    /\ IF confirmed
       THEN /\ expenses' = ReassignCategory(expenses, name, "Other")
            /\ categories' = RemoveCategory(categories, name)
            /\ op' = "handleDelete"
       ELSE /\ op' = "handleDelete:declined"
            /\ UNCHANGED <<expenses, categories>>
    /\ UNCHANGED alertMsg
    /\ UNCHANGED mgr
    /\ MgrFrame

-----------------------------------------------------------------------------
(* Settings.tsx: backup and restore *)

\* What JSON.parse yields for a chosen file.  isJson is FALSE when JSON.parse
\* throws; version 0 is an absent version; currencyCode "" is an absent
\* currency.code; hasCategories / hasCustomCategories are the truthiness of
\* parsedData.categories / parsedData.customCategories.
Document(isJson, version, isArray, exps, code, hasCats, cats, hasCustom, customCats) ==
    [isJson |-> isJson, version |-> version, expensesIsArray |-> isArray,
     expenses |-> exps, currencyCode |-> code,
     hasCategories |-> hasCats, categories |-> cats,
     hasCustomCategories |-> hasCustom, customCategories |-> customCats]

\* a file written without the registry, for comparison
handleBackupNoCategories(ledger, selectedCurrency, cats) ==
    Document(TRUE, 3, TRUE, ledger, selectedCurrency, FALSE, <<>>, FALSE, <<>>)

\* the file handleBackup writes for a given state
handleBackup(ledger, selectedCurrency, cats) ==
    Document(TRUE, 3, TRUE, ledger, selectedCurrency, TRUE, cats, FALSE, <<>>)

\* a version-3 backup written on another device
OtherDeviceExpenses ==
    << [id |-> <<2, 0>>, transactionId |-> <<2>>, vendor |-> "A", date |-> 20240201,
        notes |-> "", amount |-> 1, category |-> "Pets"],
       [id |-> <<2, 1>>, transactionId |-> <<2>>, vendor |-> "A", date |-> 20240201,
        notes |-> "", amount |-> 1, category |-> "Food"] >>

OtherDeviceCategories ==
    initializeCategories \o <<[name |-> "Pets", color |-> "#112233", isDefault |-> FALSE]>>

CurrentBackup == handleBackup(OtherDeviceExpenses, "USD", OtherDeviceCategories)

\* a backup written before version 3: no version, no transactionId, custom categories only
LegacyBackup ==
    Document(TRUE, 0, TRUE, LegacyExpenses, "USD", FALSE, <<>>, TRUE, LegacyCustomCategories)

\* a version-2 backup: one split written with its transactionId, one without, and
\* neither categories nor customCategories
Version2Expenses ==
    << [id |-> <<2, 0>>, transactionId |-> <<2>>, vendor |-> "A", date |-> 20240201,
        notes |-> "", amount |-> 1, category |-> "Food"],
       [id |-> <<1>>, transactionId |-> <<>>, vendor |-> "A", date |-> 20240131,
        notes |-> "n", amount |-> 2, category |-> "Other"] >>

Version2Backup == Document(TRUE, 2, TRUE, Version2Expenses, "USD", FALSE, <<>>, FALSE, <<>>)

\* a version-3 file written by hand: its categories are one custom category, no 'Other'
CustomOnlyBackup ==
    handleBackup(<<>>, "USD", <<[name |-> "Pets", color |-> "#112233", isDefault |-> FALSE]>>)

NoCurrencyBackup == [CurrentBackup EXCEPT !.currencyCode = ""]

NoExpensesBackup == [CurrentBackup EXCEPT !.expensesIsArray = FALSE, !.expenses = <<>>]

NotJsonFile == Document(FALSE, 0, FALSE, <<>>, "", FALSE, <<>>, FALSE, <<>>)

Documents ==
    {CurrentBackup, LegacyBackup, Version2Backup, CustomOnlyBackup, NoCurrencyBackup,
     NoExpensesBackup, NotJsonFile}

RestoreFormatError ==
    "Failed to restore data. Please make sure you select a valid backup file. Error: Invalid backup file format."

RestoreSyntaxError ==
    "Failed to restore data. Please make sure you select a valid backup file. Error: Unexpected token"

RestoreSuccess == "Data restored successfully!"

\* only the currency check, for comparison
IsValidBackupCurrencyOnly(parsedData) == parsedData.currencyCode # ""

\* !(!parsedData || !Array.isArray(parsedData.expenses) || !parsedData.currency?.code)
IsValidBackup(parsedData) ==
    parsedData.expensesIsArray /\ parsedData.currencyCode # ""

\* the id written over every transactionId, for comparison
OverwriteTransactionIds(exps) ==
    [i \in 1..Len(exps) |-> [exps[i] EXCEPT !.transactionId = exps[i].id]]

\* exps.map(exp => ({ ...exp, transactionId: exp.transactionId || exp.id }))
AddTransactionIds(exps) ==
    [i \in 1..Len(exps) |->
        [exps[i] EXCEPT !.transactionId =
            IF exps[i].transactionId # <<>> THEN exps[i].transactionId ELSE exps[i].id]]

\* expensesToRestore
RestoredExpenses(parsedData) ==
    IF parsedData.version < 3
    THEN AddTransactionIds(parsedData.expenses)
    ELSE parsedData.expenses

\* the registry after a restore
RestoredCategories(parsedData, cats) ==
    IF parsedData.hasCategories THEN parsedData.categories
    ELSE IF parsedData.hasCustomCategories
    THEN LET defaults == initializeCategories
             defaultNames == NamesOf(defaults)
             kept == SelectSeq(parsedData.customCategories,
                               LAMBDA c : c.name \notin defaultNames)
             newCustom ==
                 [i \in 1..Len(kept) |->
                     [name |-> kept[i].name, color |-> kept[i].color, isDefault |-> FALSE]]
         IN defaults \o newCustom
    ELSE cats

handleFileSelect(file, confirmed) ==
    /\ OnSettings("main")
    /\ IF ~file.isJson
       THEN /\ alertMsg' = RestoreSyntaxError
            /\ op' = "restore:failed"
            /\ UNCHANGED <<expenses, currency, categories>>
       ELSE IF ~IsValidBackup(file)
       THEN /\ alertMsg' = RestoreFormatError
            /\ op' = "restore:failed"
            /\ UNCHANGED <<expenses, currency, categories>>
       ELSE IF confirmed
       THEN /\ expenses' = RestoredExpenses(file)
            /\ currency' = file.currencyCode
            /\ categories' = RestoredCategories(file, categories)
            /\ alertMsg' = RestoreSuccess
            /\ op' = "restore:done"
       ELSE /\ op' = "restore:declined"
            /\ UNCHANGED <<expenses, currency, categories, alertMsg>>
    /\ UNCHANGED <<dash, filters, report, inFlight, sms, downloads, started, now, storedCustom,
                   activePage, editingTransaction, form,
                   view, mgr>>

\* the files a restore can be given: the prepared ones and those backed up here
Files == Documents \cup {download.file : download \in downloads}

\* the Backup tile: the file written is kept with the state it was written from
handleBackupClick ==
    /\ OnSettings("main")
    /\ Cardinality(downloads) < MaxDownloads
    /\ downloads' = downloads \cup
          {[file |-> handleBackup(expenses, currency, categories),
            of |-> [expenses |-> expenses, categories |-> categories,
                    currency |-> currency]]}
    /\ op' = "handleBackup"
    /\ UNCHANGED <<started, now, expenses, categories, currency, storedCustom, activePage,
                   editingTransaction, form, view, mgr, alertMsg, dash, filters, report,
                   inFlight, sms>>

-----------------------------------------------------------------------------
(* Dashboard.tsx: the aggregation and monthlyChange useMemo hooks *)

\* Date.UTC(year, monthIndex, day) in days; monthIndex counts from 0 and a month index
\* outside 0..11 carries into the year
DateUTCClamped(year, monthIndex, day) ==
    DaysFromCivil(year, (IF monthIndex < 0 THEN 0 ELSE monthIndex) + 1, day)

DateUTC(year, monthIndex, day) ==
    DaysFromCivil(year + (monthIndex \div 12), (monthIndex % 12) + 1, day)

\* the splits the loop adds to a sum: Date.parse(expense.date) within [from, to)
SplitsFrom(ledger, from) == SelectSeq(ledger, LAMBDA expense : GetTime(expense.date) >= from)

SplitsWithin(ledger, from, to) ==
    SelectSeq(ledger, LAMBDA expense : GetTime(expense.date) >= from /\ GetTime(expense.date) < to)

\* categoryTotals over every split, for comparison
categoryTotalsAllTime(ledger, from, to) ==
    [name \in {expense.category : expense \in Range(ledger)} |->
        SumAmounts(SelectSeq(ledger, LAMBDA expense : expense.category = name))]

\* categoryTotals: filled in the branch that adds to thisMonthSpend
categoryTotals(ledger, from, to) ==
    LET counted == SplitsWithin(ledger, from, to)
    IN [name \in {expense.category : expense \in Range(counted)} |->
           SumAmounts(SelectSeq(counted, LAMBDA expense : expense.category = name))]

\* the quotient without the guard on lastMonthSpend, for comparison
monthlyChangeUnguarded(thisMonthSpend, lastMonthSpend) ==
    [num |-> (thisMonthSpend - lastMonthSpend) * 100, den |-> lastMonthSpend]

\* monthlyChange, as the fraction num / den
monthlyChange(thisMonthSpend, lastMonthSpend) ==
    IF lastMonthSpend = 0
    THEN [num |-> IF thisMonthSpend > 0 THEN 100 ELSE 0, den |-> 1]
    ELSE [num |-> (thisMonthSpend - lastMonthSpend) * 100, den |-> lastMonthSpend]

\* what the hooks compute when new Date() falls on the UTC day today
DashboardStats(ledger, today) ==
    LET year == YearOf(today)
        month == MonthOf(today) - 1
        startOfTodayUTC == DateUTC(year, month, DayOf(today))
        startOfThisMonthUTC == DateUTC(year, month, 1)
        startOfLastMonthUTC == DateUTC(year, month - 1, 1)
        startOfNextMonthUTC == DateUTC(year, month + 1, 1)
        thisMonthSpend ==
            SumAmounts(SplitsWithin(ledger, startOfThisMonthUTC, startOfNextMonthUTC))
        lastMonthSpend ==
            SumAmounts(SplitsWithin(ledger, startOfLastMonthUTC, startOfThisMonthUTC))
    IN [mounted |-> TRUE,
        today |-> today,
        todaySpend |-> SumAmounts(SplitsFrom(ledger, startOfTodayUTC)),
        thisMonthSpend |-> thisMonthSpend,
        lastMonthSpend |-> lastMonthSpend,
        categoryTotals |-> categoryTotals(ledger, startOfThisMonthUTC, startOfNextMonthUTC),
        monthlyChange |-> monthlyChange(thisMonthSpend, lastMonthSpend)]

\* the UTC days on which the Dashboard is opened
DashboardDays == {20240101, 20240131, 20240225, 20240301}

\* the Dashboard mounts, or renders again, and its hooks run
Dashboard ==
    /\ started
    /\ activePage = "dashboard"
    /\ \E today \in DashboardDays : dash' = DashboardStats(expenses, today)
    /\ UNCHANGED <<started, now, expenses, categories, currency, storedCustom, activePage,
                   editingTransaction, form, view, mgr, op, alertMsg, filters, report, inFlight,
                   sms, downloads>>

-----------------------------------------------------------------------------
(* Dashboard.tsx handleDownloadReport over geminiService.ts generateMonthlyReport *)

\* expensesForSelectedMonth; month 0 is the empty selection
expensesForSelectedMonth(ledger, selectedReportMonth) ==
    IF selectedReportMonth = 0 THEN <<>>
    ELSE SelectSeq(ledger, LAMBDA expense : YearMonth(expense.date) = selectedReportMonth)

\* the month select's onChange; the select is disabled over an empty ledger
setSelectedReportMonth ==
    /\ started
    /\ activePage = "dashboard"
    /\ expenses # <<>>
    /\ \E month \in availableReportMonths(expenses) :
          report' = [report EXCEPT !.selectedReportMonth = month]
    /\ op' = "idle"
    /\ UNCHANGED <<started, now, expenses, categories, currency, storedCustom, activePage,
                   editingTransaction, form, view, mgr, alertMsg, dash, filters, inFlight,
                   sms, downloads>>

\* a click on 'Generate & Download', up to the await; the button is disabled while a
\* report is generated and when the selected month has no expense
handleDownloadReport ==
    /\ started
    /\ activePage = "dashboard"
    /\ ~report.isGeneratingReport
    /\ expensesForSelectedMonth(expenses, report.selectedReportMonth) # <<>>
    /\ Len(inFlight) < MaxInFlight
    /\ report' = [report EXCEPT !.isGeneratingReport = TRUE]
    /\ inFlight' = Append(inFlight,
                      [call |-> "generateMonthlyReport", live |-> TRUE,
                       allCategories |-> SortedNames(allCategoryNames)])
    /\ op' = "handleDownloadReport:sent"
    /\ UNCHANGED <<started, now, expenses, categories, currency, storedCustom, activePage,
                   editingTransaction, form, view, mgr, alertMsg, dash, filters, sms,
                   downloads>>

\* what awaiting generateMonthlyReport gives: the analysis text, null, one of the two
\* refusal texts, or an exception (also one thrown while the PDF is built)
ReportOutcomes == {"text", "null", "failed", "unavailable", "throws"}

\* the alert of each outcome; the PDF is saved without one
ReportAlert(outcome) ==
    CASE outcome = "null" ->
            "Sorry, we couldn't generate the report at this time. Please try again later."
      [] outcome = "failed" -> "Could not generate report."
      [] outcome = "unavailable" -> "not available in this environment"
      [] outcome = "throws" -> "An error occurred while generating the report."

\* handleDownloadReport from the await on, for the request at place i; window.alert
\* and doc.save act even when the Dashboard that asked was unmounted
handleDownloadReportSettled(i, outcome) ==
    /\ started
    /\ i \in 1..Len(inFlight)
    /\ inFlight[i].call = "generateMonthlyReport"
    /\ IF outcome = "text"
       THEN op' = "handleDownloadReport:saved" /\ UNCHANGED alertMsg
       ELSE op' = "handleDownloadReport:alert" /\ alertMsg' = ReportAlert(outcome)
    /\ report' = IF inFlight[i].live THEN [report EXCEPT !.isGeneratingReport = FALSE]
                 ELSE report
    /\ inFlight' = Without(inFlight, i)
    /\ UNCHANGED <<started, now, expenses, categories, currency, storedCustom, activePage,
                   editingTransaction, form, view, mgr, dash, filters, sms, downloads>>

-----------------------------------------------------------------------------

Next ==
    \/ Startup
    \/ \E targetPage \in {"dashboard", "expenses", "settings"} : handleNavigate(targetPage)
    \/ handleFabClick
    \/ setTotalAmount
    \/ setVendor
    \/ setDate
    \/ setNotes
    \/ updateSplitAmount
    \/ updateSplitCategory
    \/ addSplit
    \/ removeSplit
    \/ handleToggleSplit
    \/ selectCategory
    \/ focusCategory
    \/ setSmsText
    \/ handleParseSms
    \/ \E i \in 1..MaxInFlight, aiResponse \in AiResponses : handleParseSmsSettled(i, aiResponse)
    \/ resetForm
    \/ handleSubmit
    \/ handleStartEdit
    \/ setSelectedMonth
    \/ setSelectedCategory
    \/ handleDeleteClick
    \/ setView
    \/ onCurrencyChange
    \/ handleAddNewClick
    \/ handleEditClick
    \/ handleCancel
    \/ setFormStateName
    \/ setFormStateColor
    \/ handleSave
    \/ \E name \in NamesOf(categories), confirmed \in BOOLEAN : handleDelete(name, confirmed)
    \/ handleBackupClick
    \/ \E file \in Files, confirmed \in BOOLEAN : handleFileSelect(file, confirmed)
    \/ Dashboard
    \/ setSelectedReportMonth
    \/ handleDownloadReport
    \/ \E i \in 1..MaxInFlight, outcome \in ReportOutcomes : handleDownloadReportSettled(i, outcome)

Spec == Init /\ [][Next]_vars

\* a first launch, and a launch over the data of a version without splits
InitFresh == Init /\ expenses = <<>> /\ categories = <<>> /\ storedCustom = <<>>
InitLegacy ==
    Init /\ expenses = LegacyExpenses /\ categories = <<>>
         /\ storedCustom = LegacyCustomCategories

\* one transaction entered on a first launch and edited at will, every field of the
\* form and its split editor in play (date and notes stay as shown)
NextForm ==
    \/ Startup
    \/ \E targetPage \in {"dashboard", "expenses"} : handleNavigate(targetPage)
    \/ setTotalAmount
    \/ setVendor
    \/ updateSplitAmount
    \/ updateSplitCategory
    \/ addSplit
    \/ removeSplit
    \/ handleToggleSplit
    \/ selectCategory
    \/ focusCategory
    \/ resetForm
    \/ handleSubmit
    \/ handleStartEdit
    \/ handleDeleteClick

SpecForm == InitFresh /\ [][NextForm]_vars

\* the transactions of an earlier version edited and deleted among others
NextEdit ==
    \/ Startup
    \/ \E targetPage \in {"dashboard", "expenses"} : handleNavigate(targetPage)
    \/ updateSplitAmount
    \/ addSplit
    \/ removeSplit
    \/ handleToggleSplit
    \/ handleSubmit
    \/ setSelectedMonth
    \/ handleStartEdit
    \/ handleDeleteClick

SpecEdit == InitLegacy /\ [][NextEdit]_vars

\* unsplit transactions entered one after another on a first launch and deleted at
\* will, vendor, date and notes in play (the category stays as shown)
NextMeta ==
    \/ Startup
    \/ \E targetPage \in {"dashboard", "expenses"} : handleNavigate(targetPage)
    \/ handleFabClick
    \/ setTotalAmount
    \/ setVendor
    \/ setDate
    \/ setNotes
    \/ focusCategory
    \/ handleSubmit
    \/ setSelectedMonth
    \/ handleDeleteClick

SpecMeta == InitFresh /\ [][NextMeta]_vars

\* the whole Settings page over any stored data: backup files restored, the
\* currency picker and the category manager
NextSettings ==
    \/ Startup
    \/ \E targetPage \in {"dashboard", "settings"} : handleNavigate(targetPage)
    \/ setView
    \/ onCurrencyChange
    \/ handleAddNewClick
    \/ handleEditClick
    \/ handleCancel
    \/ setFormStateName
    \/ setFormStateColor
    \/ handleSave
    \/ \E name \in NamesOf(categories), confirmed \in BOOLEAN : handleDelete(name, confirmed)
    \/ \E file \in Documents, confirmed \in BOOLEAN : handleFileSelect(file, confirmed)

SpecSettings == Init /\ [][NextSettings]_vars

\* transactions entered, edited and deleted on a first launch while categories are
\* added, renamed and deleted; no file is restored
NextRegistry ==
    \/ Startup
    \/ \E targetPage \in {"dashboard", "expenses", "settings"} : handleNavigate(targetPage)
    \/ setTotalAmount
    \/ setVendor
    \/ selectCategory
    \/ handleSubmit
    \/ handleStartEdit
    \/ handleDeleteClick
    \/ setView
    \/ handleAddNewClick
    \/ handleEditClick
    \/ handleCancel
    \/ setFormStateName
    \/ handleSave
    \/ \E name \in NamesOf(categories), confirmed \in BOOLEAN : handleDelete(name, confirmed)

SpecRegistry == InitFresh /\ [][NextRegistry]_vars

\* backups written and restored on the Settings page while the currency changes,
\* categories are deleted and other files are restored in between
NextBackup ==
    \/ Startup
    \/ \E targetPage \in {"dashboard", "settings"} : handleNavigate(targetPage)
    \/ setView
    \/ onCurrencyChange
    \/ \E name \in NamesOf(categories), confirmed \in BOOLEAN : handleDelete(name, confirmed)
    \/ handleBackupClick
    \/ \E file \in Files, confirmed \in BOOLEAN : handleFileSelect(file, confirmed)

SpecBackup == Init /\ [][NextBackup]_vars

ListSplit(n, k, date, category) ==
    [id |-> <<n, k>>, transactionId |-> NumToString(n), vendor |-> "A", date |-> date,
     notes |-> "", amount |-> 1, category |-> category]

\* transactions "200" (two splits) and "100" of one day, two entered here on the same
\* day, and one of the month before, as sortExpenses leaves them
ListPool ==
    sortExpenses(<< ListSplit(100, 0, 20240201, "Food"),
                    ListSplit(200, 0, 20240201, "Food"),
                    ListSplit(200, 1, 20240201, "Other"),
                    ListSplit(TimeOrigin + 1, 0, 20240201, "Other"),
                    ListSplit(TimeOrigin + 2, 0, 20240201, "Food"),
                    ListSplit(50, 0, 20240131, "Food") >>)

ListLedgers ==
    {SelectSeq(ListPool, LAMBDA e : e.transactionId \in chosen) :
        chosen \in SUBSET {e.transactionId : e \in Range(ListPool)}}

InitList ==
    /\ started = FALSE
    /\ now = TimeOrigin + 3
    /\ expenses \in ListLedgers
    /\ categories = initializeCategories
    /\ currency = "INR"
    /\ storedCustom = <<>>
    /\ activePage = "add"
    /\ editingTransaction = <<>>
    /\ form = InitialForm
    /\ view = "main"
    /\ mgr = InitialMgr
    /\ op = "init"
    /\ alertMsg = ""
    /\ dash = NoDash
    /\ filters = InitialFilters
    /\ report = NoReport
    /\ inFlight = <<>>
    /\ sms = InitialSms
    /\ downloads = {}

\* the expense list over stored ledgers: its two filters and its delete button
NextList ==
    \/ Startup
    \/ \E targetPage \in {"dashboard", "expenses"} : handleNavigate(targetPage)
    \/ setSelectedMonth
    \/ setSelectedCategory
    \/ handleDeleteClick

SpecList == InitList /\ [][NextList]_vars

\* transactions entered by hand or from a parsed text and reports asked for, the
\* answers of the two services arriving at any later moment
NextAssist ==
    \/ Startup
    \/ \E targetPage \in {"dashboard", "expenses"} : handleNavigate(targetPage)
    \/ handleFabClick
    \/ setVendor
    \/ selectCategory
    \/ handleSubmit
    \/ setSmsText
    \/ handleParseSms
    \/ \E i \in 1..MaxInFlight, aiResponse \in AiResponses : handleParseSmsSettled(i, aiResponse)
    \/ setSelectedReportMonth
    \/ handleDownloadReport
    \/ \E i \in 1..MaxInFlight, outcome \in ReportOutcomes :
          handleDownloadReportSettled(i, outcome)

SpecAssist == InitLegacy /\ [][NextAssist]_vars

\* stored ledgers written by versions with and without transactionId
UpgradePool ==
    { [id |-> <<1>>, transactionId |-> <<>>, vendor |-> "A", date |-> 20240131,
       notes |-> "", amount |-> 2, category |-> "Food"],
      [id |-> <<2>>, transactionId |-> <<>>, vendor |-> "A", date |-> 20240201,
       notes |-> "n", amount |-> 1, category |-> "Other"],
      [id |-> <<2, 0>>, transactionId |-> <<2>>, vendor |-> "A", date |-> 20240201,
       notes |-> "", amount |-> 1, category |-> "Food"],
      [id |-> <<1, 1>>, transactionId |-> <<1>>, vendor |-> "A", date |-> 20240131,
       notes |-> "", amount |-> 2, category |-> "Other"] }

UpgradeInputs ==
    {<<>>} \cup {<<x>> : x \in UpgradePool}
           \cup {<<p[1], p[2]>> : p \in {q \in UpgradePool \X UpgradePool : q[1] # q[2]}}

InitUpgrade ==
    /\ started = FALSE
    /\ now = TimeOrigin + Len(LegacyExpenses) + 1
    /\ expenses \in UpgradeInputs
    /\ categories \in StoredCategories
    /\ currency = "INR"
    /\ storedCustom = <<>>
    /\ activePage = "add"
    /\ editingTransaction = <<>>
    /\ form = InitialForm
    /\ view = "main"
    /\ mgr = InitialMgr
    /\ op = "init"
    /\ alertMsg = ""
    /\ dash = NoDash
    /\ filters = InitialFilters
    /\ report = NoReport
    /\ inFlight = <<>>
    /\ sms = InitialSms
    /\ downloads = {}

\* the two legacy upgrades: the startup effect over any stored ledger, and restore
NextUpgrade ==
    \/ Startup
    \/ \E targetPage \in {"dashboard", "settings"} : handleNavigate(targetPage)
    \/ \E file \in Documents, confirmed \in BOOLEAN : handleFileSelect(file, confirmed)

SpecUpgrade == InitUpgrade /\ [][NextUpgrade]_vars

\* an amount of whole currency units, in the model's units of 0.005
Money(n) == n * 200

DashSplit(n, date, amount, category) ==
    [id |-> <<n, 0>>, transactionId |-> <<n>>, vendor |-> "A", date |-> date, notes |-> "",
     amount |-> Money(amount), category |-> category]

\* splits around the turns of the months, newest first
DashboardPool ==
    << DashSplit(9, 20240301, 5, "Food"),
       DashSplit(8, 20240226, 20, "Other"),
       DashSplit(7, 20240225, 10, "Food"),
       DashSplit(6, 20240220, 70, "Food"),
       DashSplit(5, 20240210, 30, "Transport"),
       DashSplit(4, 20240131, 40, "Transport"),
       DashSplit(3, 20240115, 50, "Food"),
       DashSplit(2, 20240101, 15, "Other"),
       DashSplit(1, 20231231, 25, "Food") >>

\* the stored ledgers: up to MaxShown splits of the pool, in the pool's order
DashboardLedgers ==
    {SelectSeq(DashboardPool, LAMBDA e : e.transactionId \in chosen) :
        chosen \in {c \in SUBSET {e.transactionId : e \in Range(DashboardPool)} :
                       Cardinality(c) <= MaxShown}}

InitDashboard ==
    /\ started = FALSE
    /\ now = TimeOrigin + Len(DashboardPool) + 1
    /\ expenses \in DashboardLedgers
    /\ categories = initializeCategories
    /\ currency = "INR"
    /\ storedCustom = <<>>
    /\ activePage = "add"
    /\ editingTransaction = <<>>
    /\ form = InitialForm
    /\ view = "main"
    /\ mgr = InitialMgr
    /\ op = "init"
    /\ alertMsg = ""
    /\ dash = NoDash
    /\ filters = InitialFilters
    /\ report = NoReport
    /\ inFlight = <<>>
    /\ sms = InitialSms
    /\ downloads = {}

\* the Dashboard opened on several days over any stored ledger, with the list's delete
NextDashboard ==
    \/ Startup
    \/ \E targetPage \in {"dashboard", "expenses"} : handleNavigate(targetPage)
    \/ Dashboard
    \/ setSelectedMonth
    \/ handleDeleteClick

SpecDashboard == InitDashboard /\ [][NextDashboard]_vars

-----------------------------------------------------------------------------
(* Properties of the form's submit *)

SplitsOf(ledger, transactionId) ==
    SelectSeq(ledger, LAMBDA e : e.transactionId = transactionId)

SplitsNotOf(ledger, transactionId) ==
    SelectSeq(ledger, LAMBDA e : e.transactionId # transactionId)

Ids(ledger) == {e.id : e \in Range(ledger)}

\* C1: a submit (create or update) changes the ledger only if the declared total and
\* the sum of the split amounts differ by less than 0.01; with a difference of 0.01 or
\* more the submit is rejected and the ledger stays as it is.
C1_SumInvariant ==
    [][handleSubmit =>
          /\ (expenses' # expenses => Abs(remainingAmount(form)) < Epsilon)
          /\ (Abs(remainingAmount(form)) >= Epsilon => expenses' = expenses)]_vars

\* a submit was rejected for nothing but its mismatch, over a ledger holding a
\* transaction committed earlier
C1_Witness ==
    /\ op = "handleSubmit:rejected"
    /\ expenses # <<>>
    /\ ParseFloatOrZero(form.totalAmount) > 0
    /\ Trim(form.vendor) # ""
    /\ allSplitsValid(form)
    /\ Abs(remainingAmount(form)) >= Epsilon

\* C2: an update of transaction T leaves, as the splits of T, exactly the splits built
\* from the form (T's id, fresh split ids) and leaves every split of the other
\* transactions as it was; a submit that fails validation leaves the whole ledger as
\* it was. Every submit in edit mode is one or the other.
C2_AtomicReplace ==
    [][(handleSubmit /\ isEditMode) =>
          LET T == editingTransaction[1].transactionId
              built == FormTransaction(form)
              after == SplitsOf(expenses', T)
          IN IF isValid(form)
             THEN /\ Len(after) = Len(built.splits)
                  /\ \A i \in 1..Len(after) :
                        /\ after[i].transactionId = T
                        /\ after[i].vendor = built.vendor
                        /\ after[i].date = built.date
                        /\ after[i].notes = built.notes
                  /\ \E perm \in [1..Len(after) -> 1..Len(after)] :
                        /\ \A i, j \in 1..Len(after) : perm[i] = perm[j] => i = j
                        /\ \A i \in 1..Len(after) :
                              /\ after[i].amount = built.splits[perm[i]].amount
                              /\ after[i].category = built.splits[perm[i]].category
                  /\ Ids(after) \cap Ids(expenses) = {}
                  /\ Cardinality(Ids(after)) = Len(after)
                  /\ Range(SplitsNotOf(expenses', T)) = Range(SplitsNotOf(expenses, T))
                  /\ Len(SplitsNotOf(expenses', T)) = Len(SplitsNotOf(expenses, T))
             ELSE expenses' = expenses]_vars

\* an update turned a one-split transaction into two splits beside another transaction
C2_Witness ==
    /\ op = "handleSubmit:update"
    /\ \E i, j \in 1..Len(expenses) :
          /\ i # j
          /\ expenses[i].transactionId = expenses[j].transactionId
          /\ Len(expenses[i].id) = 2
          /\ \E k \in 1..Len(expenses) :
                expenses[k].transactionId # expenses[i].transactionId

-----------------------------------------------------------------------------
(* Properties of the category registry *)

\* C3: a confirmed delete of a non-default category C rewrites every split that
\* carried C to 'Other' and changes nothing else of it, leaves every other split as
\* it was, keeps the number and order of the splits, leaves no split carrying C, and
\* takes C and nothing else out of the registry.
C3_DeleteCascade ==
    [][\A name \in NamesOf(categories) :
          handleDelete(name, TRUE) =>
             /\ Len(expenses') = Len(expenses)
             /\ \A i \in 1..Len(expenses) :
                   expenses'[i] = IF expenses[i].category = name
                                  THEN [expenses[i] EXCEPT !.category = "Other"]
                                  ELSE expenses[i]
             /\ \A i \in 1..Len(expenses') : expenses'[i].category # name
             /\ name \notin NamesOf(categories')
             /\ NamesOf(categories') = NamesOf(categories) \ {name}]_vars

\* the custom category of the migrated ledger was deleted and the split that carried
\* it is now counted under 'Other'
C3_Witness ==
    /\ op = "handleDelete"
    /\ "Pets" \notin NamesOf(categories)
    /\ \E i \in 1..Len(expenses) :
          /\ expenses[i].id = <<2>>
          /\ expenses[i].category = "Other"
          /\ expenses[i].amount = 1
    /\ \E i \in 1..Len(expenses) : expenses[i].category = "Food"

\* C4 as stated: no step of the category manager takes a default category or 'Other' out of
\* the registry, and no save changes the name of 'Other': a delete, confirmed or
\* declined, keeps every entry marked default and every entry named 'Other' as it
\* was, and a save keeps an entry named 'Other' named 'Other' at its place.
C4_ProtectedCategories ==
    [][/\ \A name \in NamesOf(categories), confirmed \in BOOLEAN :
             handleDelete(name, confirmed) =>
                \A i \in 1..Len(categories) :
                   (categories[i].isDefault \/ categories[i].name = "Other")
                      => categories[i] \in Range(categories')
       /\ handleSave =>
             \A i \in 1..Len(categories) :
                categories[i].name = "Other"
                   => i <= Len(categories') /\ categories'[i].name = "Other"]_vars

\* C5 as stated: a successful rename of C to N (N differing from C, in letter case
\* only or otherwise) leaves every split whose category matched C, compared without
\* regard to case, carrying N, leaves the other splits as they were, and leaves no
\* split carrying the old name.
C5_RenameCascade ==
    [][(/\ handleSave
        /\ ~mgr.isAdding
        /\ validateName(categories, mgr.name, mgr.editingCatName) = ""
        /\ Trim(mgr.name) # mgr.editingCatName) =>
          LET oldName == mgr.editingCatName
              newName == Trim(mgr.name)
          IN /\ Len(expenses') = Len(expenses)
             /\ \A i \in 1..Len(expenses) :
                   expenses'[i] =
                      IF ToLowerCase(expenses[i].category) = ToLowerCase(oldName)
                      THEN [expenses[i] EXCEPT !.category = newName]
                      ELSE expenses[i]
             /\ \A i \in 1..Len(expenses') : expenses'[i].category # oldName]_vars

\* C6 as stated: no two entries of the registry have names equal without regard to
\* letter case.
C6_UniqueNames ==
    \A i, j \in 1..Len(categories) :
       i # j => ToLowerCase(categories[i].name) # ToLowerCase(categories[j].name)

-----------------------------------------------------------------------------
(* Properties of the ledger *)

\* C7 as stated: once the application has started, the ledger is ordered by date,
\* newest first, and splits of one date by their transactionId read as a number,
\* largest first.
C7_LedgerSorted ==
    started =>
       \A i, j \in 1..Len(expenses) :
          i < j =>
             \/ expenses[i].date > expenses[j].date
             \/ /\ expenses[i].date = expenses[j].date
                /\ ParseInt(expenses[i].transactionId) >= ParseInt(expenses[j].transactionId)

\* C8 as stated: a create mints a transactionId that no split of the ledger carries
\* and that is numerically greater than every transactionId an earlier create minted
\* and the ledger still holds.
C8_FreshTransactionId ==
    [][(handleSubmit /\ ~isEditMode /\ isValid(form)) =>
          LET minted == MintTransactionId(now')
          IN \A i \in 1..Len(expenses) :
                /\ expenses[i].transactionId # minted
                /\ ParseInt(minted) > ParseInt(expenses[i].transactionId)]_vars

\* C9 as stated: once the application has started, any two splits with the same
\* transactionId have the same vendor, date and notes.
C9_SharedMetadata ==
    started =>
       \A i, j \in 1..Len(expenses) :
          expenses[i].transactionId = expenses[j].transactionId =>
             /\ expenses[i].vendor = expenses[j].vendor
             /\ expenses[i].date = expenses[j].date
             /\ expenses[i].notes = expenses[j].notes

-----------------------------------------------------------------------------
(* Properties of restore *)

\* C10: choosing a file that parses as JSON but whose expenses is not a list or whose
\* currency code is missing leaves ledger, registry and currency as they were,
\* whatever the answer to a confirmation would be, and shows the alert naming the
\* invalid backup file format.
C10_InvalidRestoreRejected ==
    [][\A file \in Documents, confirmed \in BOOLEAN :
          (/\ file.isJson
           /\ ~file.expensesIsArray \/ file.currencyCode = ""
           /\ handleFileSelect(file, confirmed)) =>
             /\ expenses' = expenses
             /\ categories' = categories
             /\ currency' = currency
             /\ alertMsg' = RestoreFormatError]_vars

\* an invalid file was refused over a ledger, a registry with a custom category and a
\* currency chosen by the user
C10_Witness ==
    /\ op = "restore:failed"
    /\ alertMsg = RestoreFormatError
    /\ expenses # <<>>
    /\ "Pets" \in NamesOf(categories)
    /\ currency = "USD"

\* C11 as stated: every choice of a file either leaves ledger, registry and currency
\* as they were, or replaces all three by the content of the file (its expenses after
\* the legacy upgrade, its currency, its registry).
C11_RestoreAllOrNothing ==
    [][\A file \in Documents, confirmed \in BOOLEAN :
          handleFileSelect(file, confirmed) =>
             \/ /\ expenses' = expenses
                /\ categories' = categories
                /\ currency' = currency
             \/ /\ expenses' = RestoredExpenses(file)
                /\ currency' = file.currencyCode
                /\ file.hasCategories \/ file.hasCustomCategories
                /\ categories' = RestoredCategories(file, categories)]_vars

\* a split given its own id as transactionId if it has none
WithOwnTransactionId(e) ==
    IF e.transactionId = <<>> THEN [e EXCEPT !.transactionId = e.id] ELSE e

\* C12: a confirmed restore of a file whose version is absent or below 3 makes the
\* ledger the file's list of splits, each split without a transactionId given its id
\* as transactionId and every other split and field as in the file; the startup
\* effect does the same to the stored splits (and may reorder them).
C12_LegacyUpgrade ==
    [][/\ \A file \in Documents :
             (/\ file.isJson /\ file.expensesIsArray /\ file.currencyCode # ""
              /\ file.version < 3
              /\ handleFileSelect(file, TRUE)) =>
                /\ Len(expenses') = Len(file.expenses)
                /\ \A i \in 1..Len(file.expenses) :
                      expenses'[i] = WithOwnTransactionId(file.expenses[i])
       /\ Startup =>
             /\ Len(expenses') = Len(expenses)
             /\ Range(expenses') = {WithOwnTransactionId(e) : e \in Range(expenses)}]_vars

\* a version-2 file was restored: its split without a transactionId now carries its
\* id, its split with one kept it
C12_Witness ==
    /\ op = "restore:done"
    /\ Len(expenses) = Len(Version2Expenses)
    /\ expenses[1] = Version2Expenses[1]
    /\ expenses[1].transactionId # expenses[1].id
    /\ expenses[2] = [Version2Expenses[2] EXCEPT !.transactionId = <<1>>]

\* C13: the legacy upgrade, as written in the startup effect and as written in
\* restore, applied twice to the ledger or to the list of a backup file gives what one
\* application gives, and applied to a list in which every split has a transactionId
\* gives that list.
C13_UpgradeIdempotent ==
    \A list \in {expenses} \cup {file.expenses : file \in Documents} :
       /\ MigrateExpenses(MigrateExpenses(list)) = MigrateExpenses(list)
       /\ AddTransactionIds(AddTransactionIds(list)) = AddTransactionIds(list)
       /\ (\A i \in 1..Len(list) : list[i].transactionId # <<>>) =>
             /\ MigrateExpenses(list) = list
             /\ AddTransactionIds(list) = list

\* the startup effect has upgraded a stored ledger of two splits, one that had no
\* transactionId and one whose transactionId is not its id
C13_Witness ==
    /\ op = "startup"
    /\ Len(expenses) = 2
    /\ \E i, j \in 1..Len(expenses) :
          /\ expenses[i].transactionId = expenses[i].id
          /\ expenses[j].transactionId # <<>>
          /\ expenses[j].transactionId # expenses[j].id

\* the legacy custom categories merged one by one, an entry skipped when its name
\* equals, without regard to letter case, a name already taken
RECURSIVE MergeSkippingCollisions(_, _)
MergeSkippingCollisions(taken, customs) ==
    IF customs = <<>> THEN taken
    ELSE IF \E i \in 1..Len(taken) :
               ToLowerCase(taken[i].name) = ToLowerCase(customs[1].name)
         THEN MergeSkippingCollisions(taken, Tail(customs))
         ELSE MergeSkippingCollisions(
                 taken \o <<[name |-> customs[1].name, color |-> customs[1].color,
                             isDefault |-> FALSE]>>,
                 Tail(customs))

\* C14 as stated: a confirmed restore of a file without categories and with legacy
\* customCategories makes the registry the seven defaults, each marked default,
\* followed by the legacy entries whose names are not yet taken, each marked
\* non-default.
C14_LegacyCategoriesMerge ==
    [][\A file \in Documents :
          (/\ file.isJson /\ file.expensesIsArray /\ file.currencyCode # ""
           /\ ~file.hasCategories /\ file.hasCustomCategories
           /\ handleFileSelect(file, TRUE)) =>
             categories' =
                MergeSkippingCollisions(
                   [i \in 1..Len(CATEGORIES) |->
                       [name |-> CATEGORIES[i], color |-> CATEGORY_COLORS[CATEGORIES[i]],
                        isDefault |-> TRUE]],
                   file.customCategories)]_vars

-----------------------------------------------------------------------------
(* Properties of the Dashboard *)

\* the splits of a ledger dated in the calendar month (year, month)
SplitsOfMonth(ledger, year, month) ==
    SelectSeq(ledger, LAMBDA e : YearOf(e.date) = year /\ MonthOf(e.date) = month)

RECURSIVE SumOfValues(_, _)
SumOfValues(f, names) ==
    IF names = {} THEN 0
    ELSE LET name == CHOOSE n \in names : TRUE
         IN f[name] + SumOfValues(f, names \ {name})

\* C15 as stated: todaySpend is the sum of the amounts of the splits dated on the day
\* the Dashboard computed it; no split of another day counts.
C15_TodaySpend ==
    dash.mounted =>
       dash.todaySpend = SumAmounts(SelectSeq(expenses, LAMBDA e : e.date = dash.today))

\* C16: thisMonthSpend is the sum of the amounts of the splits dated in the calendar
\* month of the day of computation and lastMonthSpend the sum over the calendar month
\* before it (December of the year before for a day in January); the ledger
\* 2024-01-15: 50, 2024-02-10: 30, 2024-02-20: 70 seen on 2024-02-25 gives 100 and 50.
C16_MonthWindows ==
    dash.mounted =>
       LET year == YearOf(dash.today)
           month == MonthOf(dash.today)
           lastYear == IF month = 1 THEN year - 1 ELSE year
           lastMonth == IF month = 1 THEN 12 ELSE month - 1
       IN /\ dash.thisMonthSpend = SumAmounts(SplitsOfMonth(expenses, year, month))
          /\ dash.lastMonthSpend = SumAmounts(SplitsOfMonth(expenses, lastYear, lastMonth))
          /\ ({<<e.date, e.amount>> : e \in Range(expenses)} =
                 {<<20240115, Money(50)>>, <<20240210, Money(30)>>, <<20240220, Money(70)>>}
              /\ Len(expenses) = 3 /\ dash.today = 20240225)
                => dash.thisMonthSpend = Money(100) /\ dash.lastMonthSpend = Money(50)

\* the ledger of the scenario seen on 2024-02-25
C16_Witness ==
    /\ dash.mounted
    /\ dash.today = 20240225
    /\ Len(expenses) = 3
    /\ {<<e.date, e.amount, e.category>> : e \in Range(expenses)} =
          {<<20240115, Money(50), "Food">>, <<20240210, Money(30), "Transport">>,
           <<20240220, Money(70), "Food">>}
    /\ dash.thisMonthSpend = Money(100)
    /\ dash.lastMonthSpend = Money(50)

\* C17: the category breakdown has an entry for exactly the categories of the splits
\* dated in the calendar month of the day of computation, each entry the sum of the
\* amounts of those splits of its category, and the entries add up to thisMonthSpend.
C17_CategoryBreakdown ==
    dash.mounted =>
       LET inMonth == SplitsOfMonth(expenses, YearOf(dash.today), MonthOf(dash.today))
       IN /\ DOMAIN dash.categoryTotals = {e.category : e \in Range(inMonth)}
          /\ \A name \in DOMAIN dash.categoryTotals :
                dash.categoryTotals[name] =
                   SumAmounts(SelectSeq(inMonth, LAMBDA e : e.category = name))
          /\ SumOfValues(dash.categoryTotals, DOMAIN dash.categoryTotals)
                = dash.thisMonthSpend

\* a breakdown of two categories over a ledger that also holds a split of a third
\* category dated in another month
C17_Witness ==
    /\ dash.mounted
    /\ Cardinality(DOMAIN dash.categoryTotals) = 2
    /\ \E e \in Range(expenses) : e.category \notin DOMAIN dash.categoryTotals

\* C18: the month-over-month change is a fraction whose denominator is not zero; it is
\* 0 when this month's and last month's sums are both zero, 100 when last month's is
\* zero and this month's is positive, and (thisMonth - lastMonth) / lastMonth * 100
\* otherwise.
C18_MonthlyChange ==
    dash.mounted =>
       LET thisMonth == dash.thisMonthSpend
           lastMonth == dash.lastMonthSpend
           change == dash.monthlyChange
       IN /\ change.den # 0
          /\ (lastMonth = 0 /\ thisMonth = 0) => change.num = 0
          /\ (lastMonth = 0 /\ thisMonth > 0) => change.num = 100 * change.den
          /\ lastMonth # 0 =>
                /\ change.num = (thisMonth - lastMonth) * 100
                /\ change.den = lastMonth

\* spending this month after a month without any: the change shown is 100
C18_Witness ==
    /\ dash.mounted
    /\ dash.lastMonthSpend = 0
    /\ dash.thisMonthSpend > 0
    /\ dash.monthlyChange = [num |-> 100, den |-> 1]

-----------------------------------------------------------------------------
(* Properties of the form's validation and of the list's delete *)

\* the amount a number input holds, zero for an empty input
Typed(text) == IF text = <<>> THEN 0 ELSE text[1]

RECURSIVE TypedSum(_)
TypedSum(splits) == IF splits = <<>> THEN 0 ELSE Typed(Head(splits).amount) + TypedSum(Tail(splits))

\* C19: a submit commits if and only if the declared total is above 0, the vendor is
\* not blank, every split has an amount above 0 and a category, and total and sum of
\* the splits differ by less than 0.01; otherwise it is rejected. The remaining
\* amount shown is the total minus the sum of the splits in both cases.
C19_ValidityConditions ==
    [][handleSubmit =>
          LET total == Typed(form.totalAmount)
              sum == TypedSum(form.splits)
              conditions ==
                 /\ total > 0
                 /\ form.vendor \notin {"", " "}
                 /\ \A i \in 1..Len(form.splits) :
                       /\ form.splits[i].amount # <<>>
                       /\ form.splits[i].amount[1] > 0
                       /\ form.splits[i].category # ""
                 /\ total - sum < Epsilon
                 /\ sum - total < Epsilon
          IN /\ conditions <=> op' \in {"handleSubmit:create", "handleSubmit:update"}
             /\ ~conditions <=> op' = "handleSubmit:rejected"
             /\ isValid(form) <=> conditions
             /\ remainingAmount(form) = total - sum]_vars

\* a submit was rejected for nothing but a split of amount zero: total and vendor are
\* given and the splits add up to the total
C19_Witness ==
    /\ op = "handleSubmit:rejected"
    /\ Typed(form.totalAmount) > 0
    /\ form.vendor \notin {"", " "}
    /\ Typed(form.totalAmount) = TypedSum(form.splits)
    /\ \E i \in 1..Len(form.splits) : form.splits[i].amount = <<0>>
    /\ \A i \in 1..Len(form.splits) : form.splits[i].amount # <<>>

\* transactionIds no split of the ledger carries
AbsentTransactionIds ==
    {<<n>> : n \in 0..(MaxClock + 1) \cup TimeOrigin..(TimeOrigin + MaxClock + 1)}
       \ {e.transactionId : e \in Range(expenses)}

\* C20: a delete from the list removes the splits of one transaction T, all of them
\* and no other split, and keeps the remaining splits in their order; deleteTransaction
\* for a transactionId that no split carries gives the ledger as it is.
C20_DeleteTransaction ==
    [][/\ handleDeleteClick =>
             \E T \in ListedTransactionIds :
                /\ \A i \in 1..Len(expenses') : expenses'[i].transactionId # T
                /\ Len(expenses') = Len(expenses) - Len(SplitsOf(expenses, T))
                /\ expenses' = SplitsNotOf(expenses, T)
       /\ \A T \in AbsentTransactionIds : deleteTransaction(expenses, T) = expenses]_vars

\* a transaction was deleted from the list after transactions had been edited, and a
\* split of another transaction is left in the ledger
C20_Witness ==
    /\ op = "deleteTransaction"
    /\ Len(expenses) = 1
    /\ Len(expenses[1].id) = 2
    /\ expenses[1].id[2] >= 3

-----------------------------------------------------------------------------
(* Properties of the form's modes *)

\* C26: toggling the form from split mode to single-category mode leaves exactly one
\* split, whose amount is the text of the declared total and whose category is the
\* category of the first split of before; the other splits are gone and total,
\* vendor, date and notes stay as they were.
C26_ToggleConsolidates ==
    [][(handleToggleSplit /\ form.isSplit) =>
          /\ ~form'.isSplit
          /\ Len(form'.splits) = 1
          /\ form'.splits[1].amount = form.totalAmount
          /\ form'.splits[1].category = form.splits[1].category
          /\ form'.totalAmount = form.totalAmount
          /\ form'.vendor = form.vendor
          /\ form'.date = form.date
          /\ form'.notes = form.notes]_vars

\* a form was collapsed to its one split: the total 2 under the category 'Food'
C26_Witness ==
    /\ op = "handleToggleSplit:single"
    /\ ~form.isSplit
    /\ form.totalAmount = <<2>>
    /\ form.splits = <<[amount |-> <<2>>, category |-> "Food"]>>

\* C29 as stated: in single-category mode the form has one split and its amount is
\* the text of the declared total, so that a form with a total above 0 and a vendor
\* that is not blank is valid.
C29_SingleSplitCarriesTotal ==
    (started /\ activePage = "add" /\ ~form.isSplit) =>
       /\ Len(form.splits) = 1
       /\ form.splits[1].amount = form.totalAmount
       /\ (ParseFloatOrZero(form.totalAmount) > 0 /\ Trim(form.vendor) # "") => isValid(form)

-----------------------------------------------------------------------------
(* Properties of adding a category *)

\* C27: saving a new category whose name is empty after trimming, or equal without
\* regard to letter case to a name of the registry, leaves registry and ledger as
\* they were and shows an error; saving any other name appends one entry with the
\* trimmed name, the chosen colour and isDefault = FALSE, and leaves every entry
\* that was there, and every split, as it was.
C27_AddCategory ==
    [][(handleSave /\ mgr.isAdding) =>
          LET trimmedName == Trim(mgr.name)
              taken == \E i \in 1..Len(categories) :
                          ToLowerCase(categories[i].name) = ToLowerCase(trimmedName)
          IN IF trimmedName = "" \/ taken
             THEN /\ categories' = categories
                  /\ expenses' = expenses
                  /\ mgr'.error # ""
             ELSE /\ Len(categories') = Len(categories) + 1
                  /\ \A i \in 1..Len(categories) : categories'[i] = categories[i]
                  /\ categories'[Len(categories')] =
                        [name |-> trimmedName, color |-> mgr.color, isDefault |-> FALSE]
                  /\ expenses' = expenses]_vars

\* the name 'food' was refused in a registry that holds 'Food' and no 'food'
C27_Witness ==
    /\ op = "handleSave:rejected"
    /\ mgr.isAdding
    /\ mgr.name = "food"
    /\ mgr.error = "This category name already exists."
    /\ "Food" \in NamesOf(categories)
    /\ "food" \notin NamesOf(categories)

-----------------------------------------------------------------------------
(* Properties of the registry as a whole *)

\* C24 as stated: once the application has started, the registry has an entry named
\* 'Other'.
C24_OtherPresent ==
    started => \E i \in 1..Len(categories) : categories[i].name = "Other"

\* C25 as stated: once the application has started, the category of every split is
\* the name of an entry of the registry.
C25_CategoriesExist ==
    started => \A i \in 1..Len(expenses) : expenses[i].category \in NamesOf(categories)

\* C30: restoring, with the confirmation accepted, a file that Backup wrote sets the
\* ledger (same splits, same order), the registry and the currency to what they were
\* when the file was written, whatever they are at the restore
C30_BackupRestoreRoundTrip ==
    [][\A download \in downloads :
          handleFileSelect(download.file, TRUE) =>
             /\ expenses' = download.of.expenses
             /\ categories' = download.of.categories
             /\ currency' = download.of.currency]_vars

\* a file backed up from the upgraded legacy data, in INR and with the category 'food',
\* was restored, and ledger, registry and currency are those of the backup
C30_Witness ==
    /\ op = "restore:done"
    /\ \E download \in downloads :
          /\ expenses = download.of.expenses
          /\ categories = download.of.categories
          /\ currency = download.of.currency
          /\ download.of.expenses = AddTransactionIds(LegacyExpenses)
          /\ download.of.currency = "INR"
          /\ "food" \in NamesOf(download.of.categories)
          /\ download.file # CurrentBackup


\* the place of a transaction in the list, counted from the top
PlaceOf(order, transactionId) == CHOOSE i \in 1..Len(order) : order[i] = transactionId

\* C21: the filtered view keeps the ledger's order, and when the list shows the
\* transactions "100" and "200" of one date, "200" stands above "100"
C21_ListOrder ==
    (started /\ activePage = "expenses") =>
       LET shown == filteredExpenses(expenses, filters.selectedMonth, filters.selectedCategory)
           order == TopToBottom(Listed)
       IN /\ shown = SelectSeq(expenses, LAMBDA expense : expense \in Range(shown))
          /\ (NumToString(100) \in Range(order) /\ NumToString(200) \in Range(order)) =>
                PlaceOf(order, NumToString(200)) < PlaceOf(order, NumToString(100))

-----------------------------------------------------------------------------
(* Properties of the two service calls *)

C23_CallsLeaveLedger ==
    [][/\ ( \/ handleParseSms
            \/ handleDownloadReport
            \/ \E i \in 1..Len(inFlight) :
                  \/ \E aiResponse \in AiResponses : handleParseSmsSettled(i, aiResponse)
                  \/ \E outcome \in ReportOutcomes : handleDownloadReportSettled(i, outcome) )
          => UNCHANGED <<expenses, categories, currency>>
       /\ (started /\ expenses' # expenses) => (handleSubmit /\ isValid(form))]_vars

\* a transaction submitted from a form that a parse had filled: the parse left the
\* ledger alone and the submit committed its candidate
C23_Witness ==
    /\ op = "handleSubmit:create"
    /\ \E i \in 1..Len(expenses) :
          /\ expenses[i].transactionId = NumToString(now)
          /\ expenses[i].vendor = "A"
          /\ expenses[i].amount = 2
          /\ expenses[i].category = "Pets"

\* the requests of one service that have not been answered
Outstanding(call) == SelectSeq(inFlight, LAMBDA request : request.call = call)

\* C28 as stated: at most one parse request and at most one report request is
\* outstanding, the control of a service is disabled exactly while a request to it is
\* outstanding
C28_SingleFlight ==
    /\ Len(Outstanding("parseExpenseFromText")) <= 1
    /\ Len(Outstanding("generateMonthlyReport")) <= 1
    /\ (started /\ activePage = "add") =>
          (sms.isParsing <=> Outstanding("parseExpenseFromText") # <<>>)
    /\ (started /\ activePage = "dashboard") =>
          (report.isGeneratingReport <=> Outstanding("generateMonthlyReport") # <<>>)

====
